---- MODULE Spec2Model ----
(***************************************************************************)
(* A model of stock_history.py (the file-writing variant) and              *)
(* stock_history_display.py (the console variant): one run of main() as a  *)
(* sequence of steps, the helper functions as operators.                   *)
(*                                                                         *)
(* Text is a sequence of one-character strings, so that parsing and        *)
(* formatting are computed and not assumed.                                *)
(***************************************************************************)
EXTENDS Integers, Sequences, FiniteSets, TLC

VARIABLES
    variant,        \* "file": stock_history.py, "console": stock_history_display.py
    argv,           \* sys.argv[1:], each argument a text
    symfile,        \* the file sys.argv[1] names: [isfile, lines]
    fs,             \* the output files that exist: [label, n] (n = 0: no suffix)
    runs,           \* how many times the program has been started
    made,           \* the output files the runs created, in order
    pc,             \* the position of main()
    exit,           \* <<>> while running, then <<the exit code>>
    err,            \* the message of the fatal exit
    hcCalls,        \* number of healthcheck() calls of this run
    net,            \* the requests sent to the provider, in order
    symbols,        \* the ordered mapping read_symbols returned
    symRead,        \* read_symbols has been called
    start_date, end_date, output_dir,
    date_str,       \* the run label
    filename,       \* the output file of this run
    clobbered,      \* the output file existed when it was opened for writing
    idx,            \* position of the current loop in its sequence
    fetched,        \* one entry per fetch_data call: [symbol, resp, data]
    successful,
    stock_data,     \* console variant: the (symbol, data, header) kept
    majority_date,
    out,            \* the lines written to the output file
    stdout          \* the lines printed

vars == <<variant, argv, symfile, fs, runs, made, pc, exit, err, hcCalls, net, symbols,
          symRead, start_date, end_date, output_dir, date_str, filename,
          clobbered, idx, fetched, successful, stock_data, majority_date, out,
          stdout>>

----------------------------------------------------------------------------
(* Text *)

\* Python's None, a value no text equals
None == <<"None">>

\* bool(x) of an argument that is None or a text
Truthy(x) == x # None /\ x # <<>>

DigitChars == <<"0", "1", "2", "3", "4", "5", "6", "7", "8", "9">>

IsDigit(c) == \E i \in 1..10 : DigitChars[i] = c

DigitVal(c) == (CHOOSE i \in 1..10 : DigitChars[i] = c) - 1

\* s[i:j] of Python, on 0-based positions
Slice(s, i, j) == IF j <= i THEN <<>> ELSE SubSeq(s, i + 1, j)

\* s.find(c, from): the least 0-based position >= from holding c, else -1
RECURSIVE Find(_, _, _)
Find(s, c, from) ==
    IF from >= Len(s) THEN -1
    ELSE IF s[from + 1] = c THEN from
    ELSE Find(s, c, from + 1)

RECURSIVE LStrip(_)
LStrip(s) == IF s # <<>> /\ Head(s) = " " THEN LStrip(Tail(s)) ELSE s

RECURSIVE RStrip(_)
RStrip(s) ==
    IF s # <<>> /\ s[Len(s)] = " " THEN RStrip(SubSeq(s, 1, Len(s) - 1)) ELSE s

\* line.strip()
Strip(s) == RStrip(LStrip(s))

----------------------------------------------------------------------------
(* Dates: datetime.strptime(s, "%Y-%m-%d"), weekday(), strftime("%Y-%m-%d") *)

IsLeap(y) == (y % 4 = 0) /\ ((y % 100 # 0) \/ (y % 400 = 0))

DaysInMonth(y, m) ==
    IF m = 2 THEN (IF IsLeap(y) THEN 29 ELSE 28)
    ELSE IF m \in {4, 6, 9, 11} THEN 30 ELSE 31

RECURSIVE DaysBeforeMonth(_, _)
DaysBeforeMonth(y, m) ==
    IF m <= 1 THEN 0 ELSE DaysBeforeMonth(y, m - 1) + DaysInMonth(y, m - 1)

DaysBeforeYear(y) ==
    (y - 1) * 365 + ((y - 1) \div 4) - ((y - 1) \div 100) + ((y - 1) \div 400)

\* date.toordinal()
ToOrdinal(dt) == DaysBeforeYear(dt.y) + DaysBeforeMonth(dt.y, dt.m) + dt.d

\* date.weekday(): 0 = Monday ... 6 = Sunday
Weekday(dt) == (ToOrdinal(dt) + 6) % 7

BadDate == [ok |-> FALSE, y |-> 0, m |-> 0, d |-> 0]

\* The width of the month field at 0-based position p: the directive %m is
\* 1[0-2]|0[1-9]|[1-9] and a "-" must follow; 0 when nothing matches.
MonthWidth(s, p) ==
    LET c1 == IF p < Len(s) THEN s[p + 1] ELSE ""
        c2 == IF p + 1 < Len(s) THEN s[p + 2] ELSE ""
        c3 == IF p + 2 < Len(s) THEN s[p + 3] ELSE ""
    IN  IF c1 = "1" /\ c2 \in {"0", "1", "2"} /\ c3 = "-" THEN 2
        ELSE IF c1 = "0" /\ IsDigit(c2) /\ c2 # "0" /\ c3 = "-" THEN 2
        ELSE IF IsDigit(c1) /\ c1 # "0" /\ c2 = "-" THEN 1
        ELSE 0

\* The width of the day field at p: %d is 3[0-1]|[1-2]\d|0[1-9]|[1-9]| [1-9],
\* the first alternative that matches; 0 when none does.
DayWidth(s, p) ==
    LET c1 == IF p < Len(s) THEN s[p + 1] ELSE ""
        c2 == IF p + 1 < Len(s) THEN s[p + 2] ELSE ""
    IN  IF c1 = "3" /\ c2 \in {"0", "1"} THEN 2
        ELSE IF c1 \in {"1", "2"} /\ IsDigit(c2) THEN 2
        ELSE IF c1 = "0" /\ IsDigit(c2) /\ c2 # "0" THEN 2
        ELSE IF IsDigit(c1) /\ c1 # "0" THEN 1
        ELSE IF c1 = " " /\ IsDigit(c2) /\ c2 # "0" THEN 2
        ELSE 0

RECURSIVE IntOf(_)
IntOf(s) ==
    IF s = <<>> THEN 0
    ELSE IF s[Len(s)] = " " THEN IntOf(SubSeq(s, 1, Len(s) - 1))
    ELSE 10 * IntOf(SubSeq(s, 1, Len(s) - 1)) + DigitVal(s[Len(s)])

\* datetime.strptime(s, "%Y-%m-%d"); ok = FALSE stands for ValueError
Strptime(s) ==
    IF ~(Len(s) >= 5 /\ (\A i \in 1..4 : IsDigit(s[i])) /\ s[5] = "-")
    THEN BadDate
    ELSE LET mw == MonthWidth(s, 5)
             dp == 5 + mw + 1
             dw == DayWidth(s, dp)
         IN  IF mw = 0 \/ dw = 0 \/ dp + dw # Len(s) THEN BadDate
             ELSE LET y == IntOf(Slice(s, 0, 4))
                      m == IntOf(Slice(s, 5, 5 + mw))
                      d == IntOf(Slice(s, dp, dp + dw))
                  IN  IF y < 1 \/ d > DaysInMonth(y, m) THEN BadDate
                      ELSE [ok |-> TRUE, y |-> y, m |-> m, d |-> d]

Chr(n) == DigitChars[n + 1]

\* date.strftime("%Y-%m-%d") of a date whose year has four digits
Strftime(dt) ==
    << Chr(dt.y \div 1000), Chr((dt.y \div 100) % 10), Chr((dt.y \div 10) % 10),
       Chr(dt.y % 10), "-", Chr(dt.m \div 10), Chr(dt.m % 10), "-",
       Chr(dt.d \div 10), Chr(dt.d % 10) >>

----------------------------------------------------------------------------
(* read_symbols *)

Quote == "\""

\* symbols_dict[key] = value on an insertion-ordered dict, kept as a sequence
\* of [symbol, header]: an existing key keeps its place and gets the value.
DictSet(dict, key, value) ==
    IF \E i \in 1..Len(dict) : dict[i].symbol = key
    THEN [i \in 1..Len(dict) |->
            IF dict[i].symbol = key THEN [symbol |-> key, header |-> value]
            ELSE dict[i]]
    ELSE Append(dict, [symbol |-> key, header |-> value])

\* ReadLine that looks for the comma from the start of the line
ReadLine_CommaAnywhere(dict, raw) ==
    LET line == Strip(raw) IN
    IF line = <<>> THEN dict
    ELSE IF line[1] = Quote THEN
        LET first_quote_end == Find(line, Quote, 1) IN
        IF first_quote_end > 0 THEN
            LET symbol == Slice(line, 1, first_quote_end)
                comma_pos == Find(line, ",", 0)
            IN  IF comma_pos > 0 THEN
                    LET second_quote_start == Find(line, Quote, comma_pos) IN
                    IF second_quote_start > 0 THEN
                        LET second_quote_end ==
                                Find(line, Quote, second_quote_start + 1)
                        IN  IF second_quote_end > 0
                            THEN DictSet(dict, symbol,
                                    Slice(line, second_quote_start + 1,
                                          second_quote_end))
                            ELSE DictSet(dict, symbol, None)
                    ELSE DictSet(dict, symbol, None)
                ELSE DictSet(dict, symbol, None)
        ELSE dict
    ELSE DictSet(dict, line, None)

\* One iteration of "for line in f" on the raw line
ReadLine(dict, raw) ==
    LET line == Strip(raw) IN
    IF line = <<>> THEN dict
    ELSE IF line[1] = Quote THEN
        LET first_quote_end == Find(line, Quote, 1) IN
        IF first_quote_end > 0 THEN
            LET symbol == Slice(line, 1, first_quote_end)
                comma_pos == Find(line, ",", first_quote_end)
            IN  IF comma_pos > 0 THEN
                    LET second_quote_start == Find(line, Quote, comma_pos) IN
                    IF second_quote_start > 0 THEN
                        LET second_quote_end ==
                                Find(line, Quote, second_quote_start + 1)
                        IN  IF second_quote_end > 0
                            THEN DictSet(dict, symbol,
                                    Slice(line, second_quote_start + 1,
                                          second_quote_end))
                            ELSE DictSet(dict, symbol, None)
                    ELSE DictSet(dict, symbol, None)
                ELSE DictSet(dict, symbol, None)
        ELSE dict
    ELSE DictSet(dict, line, None)

RECURSIVE ReadLines(_, _)
ReadLines(dict, lines) ==
    IF lines = <<>> THEN dict
    ELSE ReadLines(ReadLine(dict, Head(lines)), Tail(lines))

\* read_symbols(input_arg), file standing for the file input_arg names
read_symbols(input_arg, file) ==
    IF file.isfile THEN ReadLines(<<>>, file.lines)
    ELSE <<[symbol |-> input_arg, header |-> None]>>

----------------------------------------------------------------------------
(* get_filename *)

FileName(label, n) == [label |-> label, n |-> n]

\* the "while os.path.exists(..._{i}.txt): i += 1" loop
RECURSIVE FirstFree(_, _, _)
FirstFree(files, label, i) ==
    IF FileName(label, i) \in files THEN FirstFree(files, label, i + 1) ELSE i

\* get_filename whose loop stops one suffix early
get_filename_OffByOne(label, files) ==
    IF FileName(label, 0) \notin files THEN FileName(label, 0)
    ELSE FileName(label, FirstFree(files, label, 1) - 1)

\* get_filename(date_str, output_dir), files being those of output_dir
get_filename(label, files) ==
    IF FileName(label, 0) \notin files THEN FileName(label, 0)
    ELSE FileName(label, FirstFree(files, label, 1))

----------------------------------------------------------------------------
(* fetch_data *)

\* the exception classes "except (KeyError, ValueError, ConnectionError)" names
Caught == {"KeyError", "ValueError", "ConnectionError"}

\* what the provider's client may raise: the three above, and OtherError for
\* every class that derives from none of them
ExcKinds == Caught \cup {"OtherError"}

NoData == "NO_DATA_FOR_DATE"

\* how an answer of the provider looks: the exception raised, "empty", "rows"
Answer(a) ==
    IF a.exc # "none" THEN a.exc ELSE IF a.rows = <<>> THEN "empty" ELSE "rows"

\* one ticker.history request and its answer
Query(symbol, kind, a) ==
    [call |-> "history", symbol |-> symbol, kind |-> kind, answer |-> Answer(a)]

\* fetch_data that takes an empty primary result for "not found" at once
fetch_data_NoLookback(symbol, start, end, resp) ==
    LET kind == IF Truthy(start) /\ Truthy(end) THEN "range"
                ELSE IF Truthy(start) THEN "start_1d" ELSE "latest_1d"
        q1 == <<Query(symbol, kind, resp.p)>>
    IN  IF resp.p.exc # "none"
        THEN [tag |-> IF resp.p.exc \in Caught THEN "None" ELSE "Raise",
              rows |-> <<>>, exc |-> resp.p.exc, queries |-> q1]
        ELSE IF resp.p.rows = <<>>
        THEN [tag |-> "None", rows |-> <<>>, exc |-> "none", queries |-> q1]
        ELSE [tag |-> "Found", rows |-> resp.p.rows, exc |-> "none",
              queries |-> q1]

\* fetch_data(symbol, start_date, end_date) when the provider answers resp:
\* resp.p the primary query's answer, resp.s the period="5d" query's, each
\* [exc, rows] with exc = "none" when it returns rows.
\* The result: tag "None", NoData, "Found" (with rows) or "Raise" (with the
\* exception that leaves fetch_data), and the queries sent.
fetch_data(symbol, start, end, resp) ==
    LET kind == IF Truthy(start) /\ Truthy(end) THEN "range"
                ELSE IF Truthy(start) THEN "start_1d" ELSE "latest_1d"
        thrown(e, qs) ==
            IF e \in Caught
            THEN [tag |-> "None", rows |-> <<>>, exc |-> "none", queries |-> qs]
            ELSE [tag |-> "Raise", rows |-> <<>>, exc |-> e, queries |-> qs]
        q1 == <<Query(symbol, kind, resp.p)>>
        q2 == <<Query(symbol, kind, resp.p), Query(symbol, "lookback_5d", resp.s)>>
    IN  IF kind = "range" /\ ~Strptime(end).ok THEN thrown("ValueError", <<>>)
        ELSE IF resp.p.exc # "none" THEN thrown(resp.p.exc, q1)
        ELSE IF resp.p.rows = <<>> THEN
            IF resp.s.exc # "none" THEN thrown(resp.s.exc, q2)
            ELSE IF resp.s.rows = <<>>
            THEN [tag |-> "None", rows |-> <<>>, exc |-> "none", queries |-> q2]
            ELSE [tag |-> NoData, rows |-> <<>>, exc |-> "none", queries |-> q2]
        ELSE [tag |-> "Found", rows |-> resp.p.rows, exc |-> "none",
              queries |-> q1]

----------------------------------------------------------------------------
(* Formatting *)

\* OhlcFlag with the bounds of the band counted as outside
OhlcFlag_BoundsOutside(row) ==
    row.open >= row.high \/ row.open <= row.low
        \/ row.close >= row.high \/ row.close <= row.low

\* the test "Open/Close is outside High/Low range"
OhlcFlag(row) ==
    row.open > row.high \/ row.open < row.low
        \/ row.close > row.high \/ row.close < row.low

\* the line of a one-row result in the output file
FileSingleLine(symbol, row) ==
    [kind |-> "single", flag |-> IF OhlcFlag(row) THEN "; " ELSE "",
     date |-> Strftime(row.date), symbol |-> symbol, row |-> row]

\* a line of a several-row result, in both variants
MultiLine(symbol, row) ==
    [kind |-> "multi", flag |-> IF OhlcFlag(row) THEN "; " ELSE "",
     date |-> Strftime(row.date), symbol |-> symbol, row |-> row]

HeaderLine(symbol, custom_header) ==
    [kind |-> "header", symbol |-> symbol,
     text |-> IF Truthy(custom_header) THEN custom_header
              ELSE <<"D", "A", "T", "E", " ", "O", "H", "L", "C", "V", " ">>
                       \o symbol]

\* the header and the rows of a several-row result
MultiBlock(symbol, custom_header, rows) ==
    <<HeaderLine(symbol, custom_header)>>
        \o [i \in 1..Len(rows) |-> MultiLine(symbol, rows[i])]

\* the line of a one-row result on the console
ConsoleSingleLine(symbol, row, majority) ==
    LET date_fmt == Strftime(row.date)
        date_flag == Truthy(majority) /\ date_fmt # majority
        ohlc_flag == OhlcFlag(row)
    IN  [kind |-> "single",
         flag |-> IF date_flag /\ ohlc_flag THEN "*; "
                  ELSE IF date_flag THEN "* "
                  ELSE IF ohlc_flag THEN "; " ELSE "",
         date |-> date_fmt, symbol |-> symbol, row |-> row]

\* the notice printed for a symbol that gave no rows
Notice(symbol, tag) == [kind |-> "notice", symbol |-> symbol, what |-> tag]

\* date_counts[date] = date_counts.get(date, 0) + 1, insertion-ordered
CountDate(counts, date) ==
    IF \E i \in 1..Len(counts) : counts[i].date = date
    THEN [i \in 1..Len(counts) |->
            IF counts[i].date = date
            THEN [date |-> date, n |-> counts[i].n + 1] ELSE counts[i]]
    ELSE Append(counts, [date |-> date, n |-> 1])

\* the loop over stock_data of the majority-date block: date_counts, and
\* date_str, which the loop assigns at every one-row result
RECURSIVE ScanDates(_, _, _)
ScanDates(entries, counts, label) ==
    IF entries = <<>> THEN [counts |-> counts, date_str |-> label]
    ELSE LET e == Head(entries) IN
         IF Len(e.data) = 1
         THEN ScanDates(Tail(entries),
                        CountDate(counts, Strftime(e.data[1].date)),
                        Strftime(e.data[1].date))
         ELSE ScanDates(Tail(entries), counts, label)

\* MaxKey that keeps the last of the keys with the greatest count
MaxKey_LastSeen(counts) ==
    LET best == CHOOSE i \in 1..Len(counts) :
                    /\ \A j \in 1..Len(counts) : counts[j].n <= counts[i].n
                    /\ \A j \in (i + 1)..Len(counts) : counts[j].n < counts[i].n
    IN  counts[best].date

\* max(date_counts, key=date_counts.get): the first key, in insertion
\* order, whose count no other exceeds
MaxKey(counts) ==
    LET best == CHOOSE i \in 1..Len(counts) :
                    /\ \A j \in 1..Len(counts) : counts[j].n <= counts[i].n
                    /\ \A j \in 1..(i - 1) : counts[j].n < counts[i].n
    IN  counts[best].date

----------------------------------------------------------------------------
(* One run of main() *)

\* sys.exit(code) after printing msg, and the exit of an uncaught exception
Halt(code, msg) ==
    /\ pc' = "exited"
    /\ exit' = <<code>>
    /\ err' = msg

Arg(i) == IF Len(argv) >= i THEN argv[i] ELSE None

\* filename before get_filename has been called
NoFileName == FileName(None, 0)

\* the request healthcheck() sends, and whether it found a last price
HealthRequest(ok) ==
    [call |-> "fast_info", symbol |-> <<"A", "A", "P", "L">>,
     kind |-> "healthcheck", answer |-> IF ok THEN "ok" ELSE "failed"]

\* main() at position at, nothing read, fetched or written yet
Fresh(v, args, file, files, at, calls, sent) ==
    /\ variant = v
    /\ argv = args
    /\ symfile = file
    /\ fs = files
    /\ runs = 1
    /\ made = <<>>
    /\ pc = at
    /\ exit = <<>>
    /\ err = "none"
    /\ hcCalls = calls
    /\ net = sent
    /\ symbols = <<>>
    /\ symRead = FALSE
    /\ start_date = None
    /\ end_date = None
    /\ output_dir = None
    /\ date_str = None
    /\ filename = NoFileName
    /\ clobbered = FALSE
    /\ idx = 0
    /\ fetched = <<>>
    /\ successful = 0
    /\ stock_data = <<>>
    /\ majority_date = None
    /\ out = <<>>
    /\ stdout = <<>>

\* the program as it starts with the arguments args
Start(v, args, file, files) == Fresh(v, args, file, files, "main", 0, <<>>)

\* the program once the health check has passed
AfterHealthcheck(v, args, file) ==
    Fresh(v, args, file, {}, "read_symbols", 1, <<HealthRequest(TRUE)>>)

\* "if len(sys.argv) < 2": the usage error
CheckArgs ==
    /\ pc = "main"
    /\ IF Len(argv) < 1
       THEN Halt(1, "usage")
       ELSE /\ pc' = "healthcheck"
            /\ UNCHANGED <<exit, err>>
    /\ UNCHANGED <<variant, argv, symfile, fs, runs, made, hcCalls, net, symbols,
                   symRead, start_date, end_date, output_dir, date_str,
                   filename, clobbered, idx, fetched, successful, stock_data,
                   majority_date, out, stdout>>

\* Healthcheck with the result of healthcheck() not looked at
Healthcheck_ResultIgnored ==
    /\ pc = "healthcheck"
    /\ \E ok \in BOOLEAN :
        /\ hcCalls' = hcCalls + 1
        /\ net' = Append(net, HealthRequest(ok))
        /\ pc' = "read_symbols"
    /\ UNCHANGED <<variant, argv, symfile, fs, runs, made, symbols, symRead,
                   start_date, end_date, output_dir, date_str, filename,
                   clobbered, idx, fetched, successful, stock_data,
                   majority_date, out, stdout, exit, err>>

\* "if not healthcheck()": one fast_info request for AAPL; ok is FALSE when
\* the request raises or the answer has no last_price
Healthcheck ==
    /\ pc = "healthcheck"
    /\ \E ok \in BOOLEAN :
        /\ hcCalls' = hcCalls + 1
        /\ net' = Append(net, HealthRequest(ok))
        /\ IF ok
           THEN /\ pc' = "read_symbols"
                /\ UNCHANGED <<exit, err>>
           ELSE Halt(1, "connect")
    /\ UNCHANGED <<variant, argv, symfile, fs, runs, made, symbols, symRead,
                   start_date, end_date, output_dir, date_str, filename,
                   clobbered, idx, fetched, successful, stock_data,
                   majority_date, out, stdout>>

\* "symbols = read_symbols(sys.argv[1])" and the empty-set error
ReadSymbols ==
    /\ pc = "read_symbols"
    /\ symbols' = read_symbols(argv[1], symfile)
    /\ symRead' = TRUE
    /\ IF symbols' = <<>>
       THEN Halt(1, "no_symbols")
       ELSE /\ pc' = "dates"
            /\ UNCHANGED <<exit, err>>
    /\ UNCHANGED <<variant, argv, symfile, fs, runs, made, hcCalls, net, start_date,
                   end_date, output_dir, date_str, filename, clobbered, idx,
                   fetched, successful, stock_data, majority_date, out, stdout>>

\* DateError without "if start_dt > end_dt"
DateError_NoOrderCheck(start, end) ==
    IF Truthy(start) /\ Truthy(end) THEN
        IF ~Strptime(start).ok \/ ~Strptime(end).ok THEN "date_format" ELSE "none"
    ELSE IF Truthy(start) /\ ~Truthy(end) THEN
        LET date_obj == Strptime(start)
        IN  IF ~date_obj.ok THEN "date_format"
            ELSE IF Weekday(date_obj) >= 5 THEN "weekend"
            ELSE "none"
    ELSE "none"

\* the error of the two date checks on (start, end), "none" when they pass
DateError(start, end) ==
    IF Truthy(start) /\ Truthy(end) THEN
        LET start_dt == Strptime(start)
            end_dt == Strptime(end)
        IN  IF ~start_dt.ok \/ ~end_dt.ok THEN "date_format"
            ELSE IF ToOrdinal(start_dt) > ToOrdinal(end_dt) THEN "date_range"
            ELSE "none"
    ELSE IF Truthy(start) /\ ~Truthy(end) THEN
        LET date_obj == Strptime(start)
        IN  IF ~date_obj.ok THEN "date_format"
            ELSE IF Weekday(date_obj) >= 5 THEN "weekend"
            ELSE "none"
    ELSE "none"

\* start_date, end_date, output_dir from sys.argv, then the date checks
ParseDates ==
    /\ pc = "dates"
    /\ start_date' = Arg(2)
    /\ end_date' = Arg(3)
    /\ output_dir' = IF Len(argv) >= 4 THEN argv[4] ELSE <<".">>
    /\ IF DateError(start_date', end_date') # "none"
       THEN Halt(1, DateError(start_date', end_date'))
       ELSE /\ pc' = "label"
            /\ UNCHANGED <<exit, err>>
    /\ UNCHANGED <<variant, argv, symfile, fs, runs, made, hcCalls, net, symbols,
                   symRead, date_str, filename, clobbered, idx, fetched,
                   successful, stock_data, majority_date, out, stdout>>

\* the label of the run for the given dates, today being datetime.now()
Label(start, end, today) ==
    IF Truthy(start) /\ Truthy(end) THEN start \o <<"_", "t", "o", "_">> \o end
    ELSE IF Truthy(start) THEN start
    ELSE Strftime(today)

Jan(d) == [y |-> 2024, m |-> 1, d |-> d]

\* the local dates the run may be made on
Todays == {Jan(8), Jan(9)}

\* "date_str = ..." (the three cases)
DeriveLabel ==
    /\ pc = "label"
    /\ \E today \in Todays : date_str' = Label(start_date, end_date, today)
    /\ pc' = IF variant = "file" THEN "open" ELSE "fetch"
    /\ idx' = 1
    /\ UNCHANGED <<variant, argv, symfile, fs, runs, made, exit, err, hcCalls, net,
                   symbols, symRead, start_date, end_date, output_dir,
                   filename, clobbered, fetched, successful, stock_data,
                   majority_date, out, stdout>>

\* file variant: "filename = get_filename(date_str, output_dir)" and
\* "open(filename, "w")", which creates the file, or empties it
OpenOutput ==
    /\ pc = "open"
    /\ filename' = get_filename(date_str, fs)
    /\ clobbered' = (filename' \in fs)
    /\ fs' = fs \cup {filename'}
    /\ made' = Append(made, filename')
    /\ out' = <<>>
    /\ pc' = "fetch"
    /\ UNCHANGED <<variant, argv, symfile, runs, exit, err, hcCalls, net,
                   symbols, symRead, start_date, end_date, output_dir,
                   date_str, idx, fetched, successful, stock_data,
                   majority_date, stdout>>

\* what one fetch_data call leaves in the log of calls
Fetched(symbol, resp, data) ==
    [symbol |-> symbol, resp |-> resp, tag |-> data.tag, rows |-> data.rows]

\* file variant: one iteration of "for symbol, custom_header in
\* symbols.items()": fetch, then the notice or the lines of the symbol
FetchAndWrite(first, rest) ==
    /\ pc = "fetch"
    /\ variant = "file"
    /\ \E resp \in (IF idx = 1 THEN first ELSE rest) :
        LET symbol == symbols[idx].symbol
            custom_header == symbols[idx].header
            data == fetch_data(symbol, start_date, end_date, resp)
            last == (idx = Len(symbols))
        IN  /\ net' = net \o data.queries
            /\ fetched' = Append(fetched, Fetched(symbol, resp, data))
            /\ idx' = idx + 1
            /\ IF data.tag = "Raise"
               THEN /\ Halt(1, "traceback")
                    /\ UNCHANGED <<out, stdout, successful>>
               ELSE /\ pc' = IF last THEN "finish" ELSE "fetch"
                    /\ UNCHANGED <<exit, err>>
                    /\ IF data.tag = "Found"
                       THEN /\ out' = IF Len(data.rows) = 1
                                      THEN Append(out,
                                             FileSingleLine(symbol, data.rows[1]))
                                      ELSE out \o MultiBlock(symbol,
                                             custom_header, data.rows)
                            /\ successful' = successful + 1
                            /\ UNCHANGED stdout
                       ELSE /\ stdout' = Append(stdout, Notice(symbol, data.tag))
                            /\ UNCHANGED <<out, successful>>
    /\ UNCHANGED <<variant, argv, symfile, fs, runs, made, hcCalls, symbols, symRead,
                   start_date, end_date, output_dir, date_str, filename,
                   clobbered, stock_data, majority_date>>

\* file variant: the summary, or the removal of the file and exit code 1
FinishFile ==
    /\ pc = "finish"
    /\ variant = "file"
    /\ IF successful > 0
       THEN /\ stdout' = Append(stdout, [kind |-> "summary", n |-> successful,
                                         label |-> date_str, path |-> filename])
            /\ Halt(0, "none")
            /\ UNCHANGED fs
       ELSE /\ fs' = fs \ {filename}
            /\ Halt(1, "no_data")
            /\ UNCHANGED stdout
    /\ UNCHANGED <<variant, argv, symfile, runs, made, hcCalls, net, symbols, symRead,
                   start_date, end_date, output_dir, date_str, filename,
                   clobbered, idx, fetched, successful, stock_data,
                   majority_date, out>>

\* stock_data[symbol] = (data, custom_header), insertion-ordered
StoreData(data_of, symbol, rows, custom_header) ==
    Append(data_of, [symbol |-> symbol, data |-> rows, header |-> custom_header])

\* console variant: one iteration of the first pass, "fetch all data"
FetchAndStore(first, rest) ==
    /\ pc = "fetch"
    /\ variant = "console"
    /\ \E resp \in (IF idx = 1 THEN first ELSE rest) :
        LET symbol == symbols[idx].symbol
            custom_header == symbols[idx].header
            data == fetch_data(symbol, start_date, end_date, resp)
            last == (idx = Len(symbols))
        IN  /\ net' = net \o data.queries
            /\ fetched' = Append(fetched, Fetched(symbol, resp, data))
            /\ IF data.tag = "Raise"
               THEN /\ Halt(1, "traceback")
                    /\ idx' = idx + 1
                    /\ UNCHANGED <<stdout, stock_data>>
               ELSE /\ pc' = IF last THEN "majority" ELSE "fetch"
                    /\ idx' = IF last THEN 1 ELSE idx + 1
                    /\ UNCHANGED <<exit, err>>
                    /\ IF data.tag = "Found"
                       THEN /\ stock_data' = StoreData(stock_data, symbol,
                                                       data.rows, custom_header)
                            /\ UNCHANGED stdout
                       ELSE /\ stdout' = Append(stdout, Notice(symbol, data.tag))
                            /\ UNCHANGED stock_data
    /\ UNCHANGED <<variant, argv, symfile, fs, runs, made, hcCalls, symbols, symRead,
                   start_date, end_date, output_dir, date_str, filename,
                   clobbered, successful, majority_date, out>>

\* console variant: "Find majority date for latest data queries"
MajorityDate ==
    /\ pc = "majority"
    /\ LET scan == ScanDates(stock_data, <<>>, date_str) IN
       IF ~Truthy(start_date) /\ stock_data # <<>>
       THEN /\ date_str' = scan.date_str
            /\ majority_date' = IF scan.counts # <<>> THEN MaxKey(scan.counts)
                                ELSE None
       ELSE UNCHANGED <<date_str, majority_date>>
    /\ pc' = IF stock_data = <<>> THEN "finish" ELSE "display"
    /\ UNCHANGED <<variant, argv, symfile, fs, runs, made, exit, err, hcCalls, net,
                   symbols, symRead, start_date, end_date, output_dir,
                   filename, clobbered, idx, fetched, successful, stock_data,
                   out, stdout>>

\* console variant: one iteration of the second pass, "display data with
\* flags"; a several-row block ends with an empty line
DisplaySymbol ==
    /\ pc = "display"
    /\ LET e == stock_data[idx] IN
       stdout' = IF Len(e.data) = 1
                 THEN Append(stdout,
                        ConsoleSingleLine(e.symbol, e.data[1], majority_date))
                 ELSE stdout \o MultiBlock(e.symbol, e.header, e.data)
                             \o <<[kind |-> "blank"]>>
    /\ successful' = successful + 1
    /\ idx' = idx + 1
    /\ pc' = IF idx = Len(stock_data) THEN "finish" ELSE "display"
    /\ UNCHANGED <<variant, argv, symfile, fs, runs, made, exit, err, hcCalls, net,
                   symbols, symRead, start_date, end_date, output_dir,
                   date_str, filename, clobbered, fetched, stock_data,
                   majority_date, out>>

\* console variant: the summary, or exit code 1
FinishConsole ==
    /\ pc = "finish"
    /\ variant = "console"
    /\ IF successful > 0
       THEN /\ stdout' = Append(stdout, [kind |-> "summary", n |-> successful,
                                         label |-> date_str, path |-> NoFileName])
            /\ Halt(0, "none")
       ELSE /\ Halt(1, "no_data")
            /\ UNCHANGED stdout
    /\ UNCHANGED <<variant, argv, symfile, fs, runs, made, hcCalls, net, symbols,
                   symRead, start_date, end_date, output_dir, date_str,
                   filename, clobbered, idx, fetched, successful, stock_data,
                   majority_date, out>>

----------------------------------------------------------------------------
(* The inputs *)

Row(d, o, h, l, c) ==
    [date |-> Jan(d), open |-> o, high |-> h, low |-> l, close |-> c]

Returns(rows) == [exc |-> "none", rows |-> rows]

Raises(e) == [exc |-> e, rows |-> <<>>]

\* a row inside its band and a row whose open is above its high
RowIn == Row(8, 2, 3, 1, 2)
RowOut == Row(9, 4, 3, 1, 2)

\* the provider's answers to one fetch_data call: an exception at the primary
\* query, an empty primary result with each outcome of the lookback query, a
\* one-row and a two-row result
MainResponses ==
    {[p |-> Raises(e), s |-> Returns(<<>>)] : e \in ExcKinds}
    \cup {[p |-> Returns(<<>>), s |-> Raises(e)] : e \in ExcKinds}
    \cup {[p |-> Returns(<<>>), s |-> Returns(r)] : r \in {<<>>, <<RowIn>>}}
    \cup {[p |-> Returns(r), s |-> Returns(q)] :
            r \in {<<RowIn>>, <<RowIn, RowOut>>}, q \in {<<>>, <<RowIn>>}}

SymA == <<"A">>
Path == <<"f">>

NotAFile == [isfile |-> FALSE, lines |-> <<>>]
FileOf(lines) == [isfile |-> TRUE, lines |-> lines]

LineA == <<"A">>
LineBH == <<Quote, "B", Quote, ",", Quote, "H", Quote>>

\* sys.argv[1] and the file it names: a symbol, an empty file, a file with
\* only a blank line, a file of two symbols
MainSources ==
    { <<SymA, NotAFile>>, <<Path, FileOf(<<>>)>>, <<Path, FileOf(<< <<" ">> >>)>>,
      <<Path, FileOf(<<LineA, LineBH>>)>> }

Fri == Strftime(Jan(5))
Sat == Strftime(Jan(6))
Sun == Strftime(Jan(7))
Mon == Strftime(Jan(8))
Garbage == <<"x">>
Month13 == <<"2", "0", "2", "4", "-", "1", "3", "-", "0", "1">>
Feb30 == <<"2", "0", "2", "4", "-", "0", "2", "-", "3", "0">>
SatShort == <<"2", "0", "2", "4", "-", "1", "-", "6">>

\* the texts given as start_date and end_date: four days in a row from a
\* Friday on, the empty text, texts strptime refuses, and a Saturday written
\* without its zeros, which strptime accepts
DateArgs == {Fri, Sat, Sun, Mon, <<>>, Garbage, Month13, Feb30, SatShort}

Dir == <<"o">>

\* sys.argv[2:]
MainDateArgs ==
    {<<>>} \cup {<<a>> : a \in DateArgs} \cup {<<a, b>> : a, b \in DateArgs}
    \cup {<<a, a, Dir>> : a \in {<<>>, Mon}}

\* the output files that exist before the run
MainFiles ==
    { {}, {FileName(Mon, 0)}, {FileName(Mon, 0), FileName(Mon, 1)},
      {FileName(Mon, 0), FileName(Mon, 2)} }

Init ==
    \E v \in {"file", "console"}, src \in MainSources, dates \in MainDateArgs,
       files \in MainFiles :
        /\ v = "console" => files = {}
        /\ \/ Start(v, <<src[1]>> \o dates, src[2], files)
           \/ /\ src = <<SymA, NotAFile>>
              /\ dates = <<>>
              /\ Start(v, <<>>, src[2], files)

\* the steps of a run, the provider answering the first symbol from first and
\* the symbols after it from rest
Steps(first, rest) ==
    \/ CheckArgs
    \/ Healthcheck
    \/ ReadSymbols
    \/ ParseDates
    \/ DeriveLabel
    \/ OpenOutput
    \/ FetchAndWrite(first, rest)
    \/ FinishFile
    \/ FetchAndStore(first, rest)
    \/ MajorityDate
    \/ DisplaySymbol
    \/ FinishConsole

Next == Steps(MainResponses, MainResponses)

Spec == Init /\ [][Next]_vars

----------------------------------------------------------------------------
(* Runs one after the other in the same output directory *)

MaxRuns == 3
MaxExisting == 2

\* the program is started again once it has exited; the files stay
NewRun(Args) ==
    /\ pc = "exited"
    /\ runs < MaxRuns
    /\ runs' = runs + 1
    /\ \E args \in Args : argv' = args
    /\ pc' = "main"
    /\ exit' = <<>>
    /\ err' = "none"
    /\ hcCalls' = 0
    /\ net' = <<>>
    /\ symbols' = <<>>
    /\ symRead' = FALSE
    /\ start_date' = None
    /\ end_date' = None
    /\ output_dir' = None
    /\ date_str' = None
    /\ filename' = NoFileName
    /\ clobbered' = FALSE
    /\ idx' = 0
    /\ fetched' = <<>>
    /\ successful' = 0
    /\ stock_data' = <<>>
    /\ majority_date' = None
    /\ out' = <<>>
    /\ stdout' = <<>>
    /\ UNCHANGED <<variant, symfile, fs, made>>

\* a symbol not found, a symbol found, an exception fetch_data lets through
FewResponses ==
    { [p |-> Returns(<<>>), s |-> Returns(<<>>)],
      [p |-> Returns(<<RowIn>>), s |-> Returns(<<>>)],
      [p |-> Raises("OtherError"), s |-> Returns(<<>>)] }


\* runs for the label 2024-01-08 and for the label 2024-01-05
RunArgs == {<<SymA, Mon>>, <<SymA, Fri>>}

InitRuns ==
    \E args \in RunArgs,
       files \in SUBSET {FileName(Mon, i) : i \in 0..MaxExisting} :
        Start("file", args, NotAFile, files)

NextRuns ==
    \/ CheckArgs
    \/ Healthcheck
    \/ ReadSymbols
    \/ ParseDates
    \/ DeriveLabel
    \/ OpenOutput
    \/ FetchAndWrite(FewResponses, FewResponses)
    \/ FinishFile
    \/ NewRun(RunArgs)

SpecRuns == InitRuns /\ [][NextRuns]_vars

----------------------------------------------------------------------------
(* read_symbols on the files of a bounded alphabet *)

MaxLineLen == 7
MaxLines == 3

\* the characters of a line: the quote, the comma, a letter, the blank
LineChars == {Quote, ",", "A", " "}

\* every line of at most MaxLineLen characters
Lines == UNION {[1..n -> LineChars] : n \in 0..MaxLineLen}

LineQA == <<Quote, "A", Quote>>
LineQAH == <<Quote, "A", Quote, ",", Quote, "H", Quote>>
LineQAG == <<" ", Quote, "A", Quote, ",", " ", Quote, "G", ",", Quote, " ">>
LineOpenA == <<Quote, "A">>
LineBlank == <<" ", " ">>

\* lines that name the symbols A and B in every way, with and without header
SampleLines == {LineA, LineQA, LineQAH, LineQAG, LineBH, LineOpenA, LineBlank}

\* the files read: every file of one line, and the files of two to MaxLines
\* lines of SampleLines
ParsedFiles ==
    {<<>>} \cup {<<l>> : l \in Lines}
           \cup UNION {[1..n -> SampleLines] : n \in 2..MaxLines}

InitParse ==
    \E v \in {"file", "console"} :
        \/ \E lines \in ParsedFiles : AfterHealthcheck(v, <<Path>>, FileOf(lines))
        \/ \E l \in SampleLines : AfterHealthcheck(v, <<l>>, NotAFile)

NextParse == ReadSymbols

SpecParse == InitParse /\ [][NextParse]_vars

----------------------------------------------------------------------------
(* The lines written for the rows of a bounded price grid *)

MaxPrice == 3

\* every row of the 8th whose four prices lie in 1..MaxPrice
PriceRows ==
    {Row(8, o, h, l, c) : o, h, l, c \in 1..MaxPrice}

\* a row of the 9th inside its band
RowNext == Row(9, 2, 3, 1, 2)

\* the first symbol's result: a row of the grid alone, or first or last in
\* a result of two rows
GridResponses ==
    {[p |-> Returns(rows), s |-> Returns(<<>>)] :
        rows \in {<<r>> : r \in PriceRows}
                 \cup {<<r, RowOut>> : r \in PriceRows}
                 \cup {<<RowIn, r>> : r \in PriceRows}}

\* the results of the symbols after the first
LaterResponses ==
    {[p |-> Returns(rows), s |-> Returns(<<>>)] :
        rows \in {<<RowNext>>, <<RowOut>>, <<RowIn, RowOut>>}}

LineC == <<"C">>

RowSources == {<<SymA, NotAFile>>, <<Path, FileOf(<<LineBH, LineA, LineC>>)>>}

InitRows ==
    \E v \in {"file", "console"}, src \in RowSources,
       dates \in {<<>>, <<Fri, Mon>>} :
        \/ Start(v, <<src[1]>> \o dates, src[2], {})
        \/ /\ src[1] = SymA
           /\ dates = <<>>
           /\ Start(v, <<>>, src[2], {})

NextRows == Steps(GridResponses, LaterResponses)

SpecRows == InitRows /\ [][NextRows]_vars

----------------------------------------------------------------------------
(* The console variant on batches of results with several dates *)

MaxSymbols == 4

Letters == <<"A", "B", "C", "D", "E", "F", "G", "H">>

\* a file of n bare symbols
Batch(n) == FileOf([i \in 1..n |-> <<Letters[i]>>])

\* one symbol's result: not found, a row of the 8th, of the 9th or of the
\* 10th, inside or outside its band, or two rows
DatedResponses ==
    {[p |-> Returns(rows), s |-> Returns(<<>>)] :
        rows \in {<<>>, <<RowIn>>, <<RowNext>>, <<RowOut>>,
                  <<Row(10, 1, 3, 2, 2)>>, <<RowIn, RowOut>>}}

\* sys.argv[2:]: no date, an empty start date, a start date, a range
DisplayDateArgs == {<<>>, << <<>>, Mon >>, <<Mon>>, <<Fri, Mon>>}

InitDisplay ==
    \E n \in 1..MaxSymbols, dates \in DisplayDateArgs :
        \/ Start("console", <<Path>> \o dates, Batch(n), {})
        \/ /\ n = 1
           /\ dates = <<>>
           /\ Start("console", <<>>, Batch(n), {})

NextDisplay ==
    \/ CheckArgs
    \/ Healthcheck
    \/ ReadSymbols
    \/ ParseDates
    \/ DeriveLabel
    \/ FetchAndStore(DatedResponses, DatedResponses)
    \/ MajorityDate
    \/ DisplaySymbol
    \/ FinishConsole

SpecDisplay == InitDisplay /\ [][NextDisplay]_vars

----------------------------------------------------------------------------
(* What the claims speak of *)

Exited == pc = "exited"

\* s is a date of the calendar written YYYY-MM-DD
IsDateText(s) ==
    /\ Len(s) = 10
    /\ \A i \in {1, 2, 3, 4, 6, 7, 9, 10} : IsDigit(s[i])
    /\ s[5] = "-"
    /\ s[8] = "-"
    /\ LET y == 1000 * DigitVal(s[1]) + 100 * DigitVal(s[2])
                    + 10 * DigitVal(s[3]) + DigitVal(s[4])
           m == 10 * DigitVal(s[6]) + DigitVal(s[7])
           d == 10 * DigitVal(s[9]) + DigitVal(s[10])
       IN  y >= 1 /\ m \in 1..12 /\ d >= 1 /\ d <= DaysInMonth(y, m)

DateOf(s) ==
    [y |-> 1000 * DigitVal(s[1]) + 100 * DigitVal(s[2]) + 10 * DigitVal(s[3])
             + DigitVal(s[4]),
     m |-> 10 * DigitVal(s[6]) + DigitVal(s[7]),
     d |-> 10 * DigitVal(s[9]) + DigitVal(s[10])]

Later(a, b) ==
    \/ a.y > b.y
    \/ a.y = b.y /\ a.m > b.m
    \/ a.y = b.y /\ a.m = b.m /\ a.d > b.d

\* Zeller's congruence: 0 for a Saturday, 1 for a Sunday
Zeller(dt) ==
    LET m == IF dt.m < 3 THEN dt.m + 12 ELSE dt.m
        y == IF dt.m < 3 THEN dt.y - 1 ELSE dt.y
        k == y % 100
        j == y \div 100
    IN  (dt.d + ((13 * (m + 1)) \div 5) + k + (k \div 4) + (j \div 4) + 5 * j) % 7

IsWeekendText(s) == IsDateText(s) /\ Zeller(DateOf(s)) \in {0, 1}

StartGiven == Len(argv) >= 2
EndGiven == Len(argv) >= 3

\* start and end are both dates, and start is the later one
ReversedRange ==
    /\ EndGiven
    /\ IsDateText(argv[2])
    /\ IsDateText(argv[3])
    /\ Later(DateOf(argv[2]), DateOf(argv[3]))

\* a start or end argument that is no date
MalformedDateGiven ==
    \/ StartGiven /\ ~IsDateText(argv[2])
    \/ EndGiven /\ ~IsDateText(argv[3])

\* a start date on a Saturday or Sunday, and no end date
LoneWeekendStart == Len(argv) = 2 /\ IsWeekendText(argv[2])

\* the health check was made and passed, and the symbol set is not empty
Ready == symRead /\ symbols # <<>>

EarlyErrors ==
    {"usage", "connect", "no_symbols", "date_format", "date_range", "weekend"}

\* the symbols whose fetch_data call returned rows
FoundCalls == {i \in 1..Len(fetched) : fetched[i].tag = "Found"}

\* the provider raised at a query of the i-th fetch_data call
RaisedAt(i) ==
    \/ Answer(fetched[i].resp.p) \in ExcKinds
    \/ Answer(fetched[i].resp.p) = "empty" /\ Answer(fetched[i].resp.s) \in ExcKinds

HealthRequests == {i \in 1..Len(net) : net[i].call = "fast_info"}

----------------------------------------------------------------------------
(* C1 *)

----------------------------------------------------------------------------
(* C2 *)

\* C2, as stated: whatever the provider raises during fetch_data, the call
\* returns the not-found result, every symbol of the list is fetched, and
\* none is fetched twice.
C2_EveryFailureIsNotFound ==
    /\ \A i \in 1..Len(fetched) : RaisedAt(i) => fetched[i].tag = "None"
    /\ Exited /\ fetched # <<>> => Len(fetched) = Len(symbols)
    /\ \A i \in 1..Len(fetched) : fetched[i].symbol = symbols[i].symbol

----------------------------------------------------------------------------
(* C3 *)

\* C3, as stated: when a run of the file-writing variant has ended, the file
\* it created exists exactly if a symbol yielded rows; an early fatal exit
\* created no file; no file that existed before was opened for writing.
C3_FileExistsIffSuccess ==
    variant = "file" /\ Exited =>
        /\ err \in EarlyErrors => filename = NoFileName
        /\ filename # NoFileName => (filename \in fs <=> successful > 0)
        /\ ~clobbered

----------------------------------------------------------------------------
(* C4 *)

\* C4: healthcheck() is called once, after the argument-count check and
\* before read_symbols and every fetch_data call; when it fails the run ends
\* with exit code 1, no symbol file read and no fetch_data call made.
C4_HealthcheckOnceAndFirst ==
    /\ hcCalls = Cardinality(HealthRequests)
    /\ hcCalls <= 1
    /\ hcCalls = 1 => Len(argv) >= 1 /\ net[1].call = "fast_info"
    /\ hcCalls = 0 => ~symRead /\ fetched = <<>> /\ net = <<>>
    /\ pc \notin {"main", "healthcheck"} /\ err # "usage" => hcCalls = 1
    /\ err = "usage" => hcCalls = 0
    /\ hcCalls = 1 /\ net[1].answer = "failed" =>
        /\ Exited
        /\ exit = <<1>>
        /\ err = "connect"
        /\ ~symRead
        /\ fetched = <<>>
        /\ Len(net) = 1

C4_Witness ==
    Exited /\ hcCalls = 1 /\ net[1].answer = "failed" /\ err = "connect"

----------------------------------------------------------------------------
(* C5 *)

\* C5, as stated: a run that has ended without a traceback has exit code 0
\* exactly if a symbol was found, and then reports the number of symbols
\* found; the exit code is 1 on a missing argument, a failed health check, an
\* empty symbol set, a malformed date, a start date after the end date, a lone
\* weekend start date, and when no symbol was found.
C5_ExitCodes ==
    Exited /\ err # "traceback" =>
        /\ exit = <<0>> <=> FoundCalls # {}
        /\ exit = <<0>> =>
            /\ stdout # <<>>
            /\ stdout[Len(stdout)].kind = "summary"
            /\ stdout[Len(stdout)].n = Cardinality(FoundCalls)
        /\ (\/ Len(argv) < 1
            \/ err = "connect"
            \/ symRead /\ symbols = <<>>
            \/ MalformedDateGiven
            \/ ReversedRange
            \/ LoneWeekendStart
            \/ FoundCalls = {}) => exit = <<1>>

----------------------------------------------------------------------------
(* C10 *)

\* C10, as stated: a start or end argument that is no date, and a lone start
\* date on a Saturday or Sunday, end the run with exit code 1 and no
\* fetch_data call; a range of two dates in order is fetched even when its
\* start is a weekend day.
C10_BadDatesAreFatal ==
    /\ MalformedDateGiven \/ LoneWeekendStart =>
        /\ fetched = <<>>
        /\ Exited => exit = <<1>>
    /\ ( /\ EndGiven
         /\ IsWeekendText(argv[2])
         /\ IsDateText(argv[3])
         /\ ~ReversedRange
         /\ Ready
         /\ Exited ) => fetched # <<>>

----------------------------------------------------------------------------
(* C6 *)

\* the files of the label that exist, and those among them the runs made
FilesOf(label) == {f \in fs : f.label = label}
MadeOf(label) == {made[i] : i \in {j \in 1..Len(made) : made[j].label = label}}

\* the suffixes the runs gave the label, in the order of the runs
RECURSIVE SuffixesOf(_, _)
SuffixesOf(names, label) ==
    IF names = <<>> THEN <<>>
    ELSE IF Head(names).label = label
         THEN <<Head(names).n>> \o SuffixesOf(Tail(names), label)
         ELSE SuffixesOf(Tail(names), label)

\* C6: the name a run has got from get_filename did not exist before, and is
\* the name without suffix when that was free, else the one with the least
\* suffix i >= 1 that was free; and when the files of a label are just those
\* the runs made for it, all kept, their suffixes are none, 1, 2, ... in the
\* order of the runs, no name twice.
C6_FreshLeastName ==
    /\ (pc = "fetch" /\ variant = "file") =>
        LET before == fs \ {filename} IN
        /\ ~clobbered
        /\ filename = made[Len(made)]
        /\ filename.label = date_str
        /\ filename.n >= 0
        /\ FileName(date_str, 0) \notin before => filename.n = 0
        /\ \A j \in 0..(filename.n - 1) : FileName(date_str, j) \in before
    /\ \A label \in {made[i].label : i \in 1..Len(made)} :
        FilesOf(label) = MadeOf(label) /\ Cardinality(MadeOf(label))
                = Len(SuffixesOf(made, label))
            => SuffixesOf(made, label)
                = [k \in 1..Len(SuffixesOf(made, label)) |-> k - 1]

\* three runs for one label have made the files with no suffix, _1 and _2
C6_Witness ==
    /\ Len(made) = 3
    /\ \A i \in 1..3 : made[i] = FileName(Mon, i - 1)
    /\ \A i \in 1..3 : made[i] \in fs

----------------------------------------------------------------------------
(* C7 *)

Least(S) == CHOOSE i \in S : \A j \in S : i <= j
Greatest(S) == CHOOSE i \in S : \A j \in S : i >= j

\* the line without the blanks at its two ends
Trimmed(raw) ==
    LET solid == {i \in 1..Len(raw) : raw[i] # " "}
    IN  IF solid = {} THEN <<>> ELSE SubSeq(raw, Least(solid), Greatest(solid))

QuotesAfter(t, k) == {i \in (k + 1)..Len(t) : t[i] = Quote}

\* t is "SYM","Header", the two fields without a quote
IsPair(t, sym, hdr) ==
    /\ t = <<Quote>> \o sym \o <<Quote, ",", Quote>> \o hdr \o <<Quote>>
    /\ \A i \in 1..Len(sym) : sym[i] # Quote
    /\ \A i \in 1..Len(hdr) : hdr[i] # Quote

\* the first quoted field of t is closed and a comma after it is followed by
\* two more quotes: a complete second quoted field
HasSecondField(t) ==
    /\ QuotesAfter(t, 1) # {}
    /\ \E c \in (Least(QuotesAfter(t, 1)) + 1)..Len(t) :
        /\ t[c] = ","
        /\ Cardinality(QuotesAfter(t, c)) >= 2

\* what a line is to add to the mapping: nothing, or one entry
LineEntry(raw) ==
    LET t == Trimmed(raw) IN
    IF t = <<>> THEN <<>>
    ELSE IF t[1] # Quote THEN <<[symbol |-> t, header |-> None]>>
    ELSE IF QuotesAfter(t, 1) = {} THEN <<>>
    ELSE LET closing == Least(QuotesAfter(t, 1))
             sym == SubSeq(t, 2, closing - 1)
         IN  IF HasSecondField(t)
             THEN LET c == Least({i \in (closing + 1)..Len(t) : t[i] = ","})
                      a == Least(QuotesAfter(t, c))
                      b == Least(QuotesAfter(t, a))
                  IN  <<[symbol |-> sym, header |-> SubSeq(t, a + 1, b - 1)]>>
             ELSE <<[symbol |-> sym, header |-> None]>>

\* the lines of the file that add an entry, and those that add one for sym
Defining(lines) == {i \in 1..Len(lines) : LineEntry(lines[i]) # <<>>}
DefiningSym(lines, sym) ==
    {i \in Defining(lines) : LineEntry(lines[i])[1].symbol = sym}

\* C7: the mapping read from a file has one entry per symbol its lines name,
\* in the order the symbols first appear, each with the header of the last
\* line naming it, where a line names a symbol by its first character: a line
\* "SYM","Header" gives SYM the header Header; a quoted SYM with no complete
\* second quoted field after a comma gives SYM no header; a line with an
\* opening quote and no closing one gives nothing; any other line gives the
\* whole trimmed line no header; a file of blank lines gives the empty mapping.
C7_LinesClassified ==
    (symRead /\ symfile.isfile) =>
        LET lines == symfile.lines IN
        /\ \A k \in 1..Len(symbols) :
            /\ DefiningSym(lines, symbols[k].symbol) # {}
            /\ symbols[k].header =
                LineEntry(lines[Greatest(DefiningSym(lines,
                                    symbols[k].symbol))])[1].header
            /\ \A j \in 1..(k - 1) :
                Least(DefiningSym(lines, symbols[j].symbol))
                    < Least(DefiningSym(lines, symbols[k].symbol))
        /\ \A i \in Defining(lines) :
            \E k \in 1..Len(symbols) :
                symbols[k].symbol = LineEntry(lines[i])[1].symbol
        /\ \A i \in 1..Len(lines) :
            LET t == Trimmed(lines[i]) IN
            \A n \in 0..(Len(t) - 5) :
                LET sym == SubSeq(t, 2, n + 1)
                    hdr == SubSeq(t, n + 5, Len(t) - 1)
                IN  IsPair(t, sym, hdr) /\ i = Greatest(DefiningSym(lines, sym))
                        => \E k \in 1..Len(symbols) :
                              symbols[k] = [symbol |-> sym, header |-> hdr]
        /\ Defining(lines) = {} => symbols = <<>> /\ err = "no_symbols"

\* a file whose second line gave the symbol A another header
C7_Witness ==
    /\ symRead
    /\ symfile.lines = <<LineQAH, LineBH, LineQAG>>
    /\ symbols = << [symbol |-> <<"A">>, header |-> <<"G", ",">>],
                    [symbol |-> <<"B">>, header |-> <<"H">>] >>

----------------------------------------------------------------------------
(* C8 *)

\* the lines that show a row, in the output file and on the console
DataLines ==
    {out[i] : i \in {j \in 1..Len(out) : out[j].kind \in {"single", "multi"}}}
    \cup {stdout[i] : i \in {j \in 1..Len(stdout) :
                                stdout[j].kind \in {"single", "multi"}}}

\* the line starts with "; ", after the "*" of the date flag if there is one
Marked(line) == line.flag \in {"; ", "*; "}

\* open and close both lie in [low, high], the bounds included
InsideBand(row) ==
    /\ row.low <= row.open /\ row.open <= row.high
    /\ row.low <= row.close /\ row.close <= row.high

\* C8: in the output file and on the console, for a result of one row and
\* for every row of a result of several, the line of a row carries the "; "
\* marker exactly when open > high, open < low, close > high or close < low;
\* a row whose open and close lie in [low, high] is never marked.
C8_MarkerIffOutsideBand ==
    \A line \in DataLines :
        /\ Marked(line) <=>
            \/ line.row.open > line.row.high \/ line.row.open < line.row.low
            \/ line.row.close > line.row.high \/ line.row.close < line.row.low
        /\ InsideBand(line.row) => ~Marked(line)
        /\ line.flag \in {"", "; ", "* ", "*; "}

\* a console run that printed a marked line with the date flag, a marked line
\* of a several-row result and an unmarked line whose close is its high
C8_Witness ==
    /\ variant = "console"
    /\ exit = <<0>>
    /\ \E a, b, c \in DataLines :
        /\ a.kind = "single" /\ a.flag = "*; "
        /\ b.kind = "multi" /\ b.flag = "; "
        /\ c.kind = "single" /\ c.flag = "" /\ c.row.close = c.row.high
           /\ c.row.open = c.row.low /\ c.row \in PriceRows

----------------------------------------------------------------------------
(* C9 *)

\* the fetch_data calls of the batch that gave exactly one row, in symbol order
SingleCalls ==
    {i \in 1..Len(fetched) :
        fetched[i].tag = "Found" /\ Len(fetched[i].rows) = 1}

\* the calls that gave one row of the day d
CallsOn(d) == {i \in SingleCalls : fetched[i].rows[1].date = d}

\* d is the most frequent day among the one-row results, the first seen of
\* the most frequent ones
IsMajority(d) ==
    /\ CallsOn(d) # {}
    /\ \A i \in SingleCalls :
        LET e == fetched[i].rows[1].date IN
        \/ Cardinality(CallsOn(e)) < Cardinality(CallsOn(d))
        \/ /\ Cardinality(CallsOn(e)) = Cardinality(CallsOn(d))
           /\ Least(CallsOn(d)) <= Least(CallsOn(e))

\* a start date was requested: sys.argv[2] is there and not empty
StartRequested == StartGiven /\ argv[2] # <<>>

Starred(line) == line.flag \in {"* ", "*; "}

\* C9: on the console, with no start date requested, the line of a one-row
\* result starts with "*" exactly when its date is not the majority date,
\* the most frequent date among the one-row results of the batch and, among
\* equally frequent ones, the first in symbol order, and the "*" is followed
\* by "; " exactly when the row is outside its band; with a start date
\* requested no line starts with "*", and no line of a several-row result
\* ever does.
C9_StarIffNotMajority ==
    variant = "console" =>
        \A k \in 1..Len(stdout) :
            /\ stdout[k].kind = "single" =>
                /\ Starred(stdout[k]) <=>
                    ~StartRequested /\ ~IsMajority(stdout[k].row.date)
                /\ stdout[k].date = Strftime(stdout[k].row.date)
                /\ stdout[k].flag = "*; " =>
                    ~InsideBand(stdout[k].row)
                /\ stdout[k].flag = "* " => InsideBand(stdout[k].row)
            /\ stdout[k].kind = "multi" => ~Starred(stdout[k])

\* a finished batch with no start date in which two dates are equally
\* frequent: the line of the first seen is plain, the other one's starred
C9_Witness ==
    /\ variant = "console"
    /\ exit = <<0>>
    /\ ~StartRequested
    /\ \E a, b \in 1..Len(stdout) :
        /\ stdout[a].kind = "single" /\ stdout[b].kind = "single"
        /\ a > b
        /\ stdout[a].flag = "" /\ stdout[b].flag = "*; "
        /\ Cardinality(CallsOn(stdout[a].row.date))
            = Cardinality(CallsOn(stdout[b].row.date))

----------------------------------------------------------------------------
(* C11 *)

IsHistory(q) == q.call = "history"

\* the ticker.history requests sent for the symbol of the i-th fetch_data
\* call, in the order sent
QueriesOf(i) ==
    LET history == SelectSeq(net, IsHistory)
        mine == {j \in 1..Len(history) : history[j].symbol = fetched[i].symbol}
    IN  [k \in 1..Cardinality(mine) |->
            history[CHOOSE j \in mine :
                        Cardinality({h \in mine : h <= j}) = k]]

\* C11: in the file-writing and in the console variant, every fetch_data call
\* sends the primary query first, and the 5-day lookback query exactly when
\* the primary query returned an empty result; the call then gives not-found
\* when the lookback result is empty too and no-data-for-date when it has
\* rows; a primary result with rows is returned as found, with no lookback
\* query; so no call gives not-found for an empty primary result without
\* having sent the lookback query.
C11_LookbackIffPrimaryEmpty ==
    \A i \in 1..Len(fetched) :
        LET qs == QueriesOf(i)
            primary == Answer(fetched[i].resp.p)
            lookback == Answer(fetched[i].resp.s)
        IN  /\ Len(qs) \in {1, 2}
            /\ qs[1].kind # "lookback_5d"
            /\ qs[1].answer = primary
            /\ Len(qs) = 2 <=> primary = "empty"
            /\ Len(qs) = 2 =>
                qs[2].kind = "lookback_5d" /\ qs[2].answer = lookback
            /\ primary = "rows" =>
                /\ fetched[i].tag = "Found"
                /\ fetched[i].rows = fetched[i].resp.p.rows
            /\ primary = "empty" /\ lookback = "empty" =>
                fetched[i].tag = "None"
            /\ primary = "empty" /\ lookback = "rows" =>
                fetched[i].tag = NoData /\ fetched[i].rows = <<>>
            /\ fetched[i].tag = NoData =>
                primary = "empty" /\ lookback = "rows"

\* a console run and a call in it whose primary query came back empty and
\* whose lookback query returned a row
C11_Witness ==
    /\ variant = "console"
    /\ \E i \in 1..Len(fetched) :
        /\ Answer(fetched[i].resp.p) = "empty"
        /\ Answer(fetched[i].resp.s) = "rows"
        /\ fetched[i].tag = NoData
        /\ Len(QueriesOf(i)) = 2

----------------------------------------------------------------------------
(* C12 *)

\* the step prints the final success summary
PrintsSummary ==
    /\ Len(stdout') = Len(stdout) + 1
    /\ stdout'[Len(stdout')].kind = "summary"

\* C12, as stated: once derived, the run label is changed by no later step
\* of the run, not by fetching, by the majority-date computation or by
\* formatting, whatever dates the rows carry; the success summary shows the
\* label as it was before the step that prints it, and in the file-writing
\* variant the file name is made of it.
C12_LabelUnchanged ==
    [][ /\ pc # "label" => date_str' = date_str
        /\ PrintsSummary => stdout'[Len(stdout')].label = date_str
        /\ pc = "open" => filename'.label = date_str ]_vars

====
